---------------------------- MODULE Spec2Model ----------------------------
(***************************************************************************)
(* Model of the LIFU transmitter configuration store                       *)
(* (Core/Src/lifu_config.c) and the flash primitives it is built on        *)
(* (Core/Src/flash_eeprom.c).                                              *)
(*                                                                         *)
(* Memory is modelled byte by byte: the flash page and the RAM copy g_cfg  *)
(* are sequences of bytes (0..255), the fields of lifu_cfg_t are read and  *)
(* written at their packed little-endian offsets, and Flash_Read and       *)
(* Flash_Write move the number of BYTES they are given.                    *)
(*                                                                         *)
(* Geometry.  The source page holds 256 doublewords (2048 bytes).  The     *)
(* model keeps every relation of the source (record = one page, header =   *)
(* 16 bytes, json = page - 16, write-back length = sizeof/4, program unit  *)
(* = 8 bytes) and bounds the number of doublewords per page by PageDW.     *)
(***************************************************************************)
EXTENDS Integers, Sequences, FiniteSets, TLC

\* ------------------------------------------------------------------ bounds
\* doublewords (8-byte program units) per flash page; 256 in the source
PageDW == 12
\* largest seq value from which the model still starts a write-back
MaxSeq == 2
\* hardware failures, power losses and corruptions in one run
MaxFaults == 1

\* --------------------------------------------------------------- constants
LIFU_MAGIC == 1279870549
LIFU_VER == 65538
LIFU_CFG_HEADER_SIZE == 16
FLASH_BASE == 134217728
CFG_PAGE_INDEX == 127
FLASH_BANK_1 == 1
FLASH_BANK_2 == 2

LIFU_CFG_PAGE_SIZE == 8 * PageDW
LIFU_CFG_JSON_MAX == LIFU_CFG_PAGE_SIZE - LIFU_CFG_HEADER_SIZE
FLASH_PAGE_SIZE == LIFU_CFG_PAGE_SIZE
FLASH_BANK_SIZE == (CFG_PAGE_INDEX + 1) * FLASH_PAGE_SIZE
LIFU_CFG_PAGE_ADDR == FLASH_BASE + CFG_PAGE_INDEX * FLASH_PAGE_SIZE
LIFU_CFG_PAGE_END == LIFU_CFG_PAGE_ADDR + FLASH_PAGE_SIZE

\* sizeof(lifu_cfg_t): the packed struct fills the page (static assertion)
SizeofCfg == LIFU_CFG_PAGE_SIZE
\* offsetof(lifu_cfg_t, field)
OffMagic == 0
OffVersion == 4
OffSeq == 8
OffCrc == 12
OffReserved == 14
OffJson == 16

U16Mod == 65536

HAL_OK == "HAL_OK"
HAL_ERROR == "HAL_ERROR"
HAL_TIMEOUT == "HAL_TIMEOUT"

\* ------------------------------------------------------------ byte helpers
Byte == 0..255

\* LET x == v IN F(x), with v evaluated once however often F uses x
Let(v, F(_)) == CHOOSE r \in {F(x) : x \in {v}} : TRUE

Fill(n, b) == [i \in 1..n |-> b]

\* little-endian encoding of v in n bytes, and decoding of n bytes at off
LE(v, n) == [i \in 1..n |-> (v \div (256 ^ (i - 1))) % 256]
U16At(s, off) == s[off + 1] + 256 * s[off + 2]
\* A uint32_t is kept as its four bytes in memory order (least significant
\* first): TLC's integers are 32-bit signed and cannot hold it.
U32At(s, off) == SubSeq(s, off + 1, off + 4)

\* v + 1 on a uint32_t (it wraps from 0xFFFFFFFF to 0)
RECURSIVE IncFrom(_, _)
IncFrom(v, i) ==
    IF i > Len(v) THEN v
    ELSE IF v[i] = 255 THEN IncFrom([v EXCEPT ![i] = 0], i + 1)
    ELSE [v EXCEPT ![i] = v[i] + 1]

Inc32(v) == IncFrom(v, 1)

\* a < b on uint32_t values
Less32(a, b) ==
    ~(\A i \in 1..4 : ~(a[i] < b[i] /\ \A j \in (i + 1)..4 : a[j] = b[j]))

\* memcpy(&s[off], bytes, Len(bytes))
Poke(s, off, bytes) ==
    SubSeq(s, 1, off) \o bytes \o SubSeq(s, off + Len(bytes) + 1, Len(s))

Magic(cfg) == U32At(cfg, OffMagic)
Version(cfg) == U32At(cfg, OffVersion)
SeqOf(cfg) == U32At(cfg, OffSeq)
Crc(cfg) == U16At(cfg, OffCrc)
Reserved(cfg) == U16At(cfg, OffReserved)
Json(cfg) == SubSeq(cfg, OffJson + 1, OffJson + LIFU_CFG_JSON_MAX)

MkCfg(magic, version, seq, crc, reserved, json) ==
    LE(magic, 4) \o LE(version, 4) \o LE(seq, 4) \o LE(crc, 2)
    \o LE(reserved, 2) \o json

\* ------------------------------------------------------------- CRC16-CCITT
\* bit k of x
Bit(x, k) == (x \div (2 ^ k)) % 2

\* a ^ b on two 4-bit values, tabulated once from the bits
XorNibble ==
    [a \in 0..15 |-> [b \in 0..15 |->
        ((Bit(a, 0) + Bit(b, 0)) % 2) + 2 * ((Bit(a, 1) + Bit(b, 1)) % 2)
        + 4 * ((Bit(a, 2) + Bit(b, 2)) % 2)
        + 8 * ((Bit(a, 3) + Bit(b, 3)) % 2)]]

\* a ^ b on two bytes
XorByte(a, b) ==
    16 * XorNibble[a \div 16][b \div 16] + XorNibble[a % 16][b % 16]

\* s ^ 0x1021 for a value whose bit 0 is clear (it was just shifted left):
\* bit 0 is set, bits 5 and 12 are inverted
Xor1021(s) ==
    s + 1 + (IF (s \div 32) % 2 = 1 THEN -32 ELSE 32)
      + (IF (s \div 4096) % 2 = 1 THEN -4096 ELSE 4096)

\* one round of the inner loop: test the top bit, shift, xor 0x1021
CrcRound(crc) ==
    IF crc >= 32768 THEN Xor1021((crc * 2) % U16Mod) ELSE (crc * 2) % U16Mod

\* crc ^= ((uint16_t)byte << 8)
XorHigh(crc, byte) == 256 * XorByte(crc \div 256, byte) + (crc % 256)

\* the eight rounds of the inner loop
RECURSIVE Rounds(_, _)
Rounds(crc, n) ==
    IF n = 0 THEN crc ELSE Let(CrcRound(crc), LAMBDA c : Rounds(c, n - 1))

\* one iteration of the outer loop: the byte is xored in, then eight rounds
CrcByte(crc, byte) == Let(XorHigh(crc, byte), LAMBDA c : Rounds(c, 8))

\* the crc after the first n bytes of data
RECURSIVE CrcUpTo(_, _)
CrcUpTo(data, n) ==
    IF n = 0 THEN 65535
    ELSE Let(CrcUpTo(data, n - 1), LAMBDA prev : CrcByte(prev, data[n]))

crc16_ccitt(data) == CrcUpTo(data, Len(data))

\* The headers the store itself produces (its magic and version, a seq the
\* model reaches) have their crc computed once; any other header is computed
\* on demand.  Both give crc16_ccitt of the bytes before the crc field.
StoreHeaders ==
    {LE(LIFU_MAGIC, 4) \o LE(LIFU_VER, 4) \o LE(n, 4) : n \in 0..(MaxSeq + 2)}
    \cup {LE(LIFU_MAGIC, 4) \o LE(LIFU_VER, 4) \o Fill(4, 255)}

StoreHeaderCrc == [h \in StoreHeaders |-> crc16_ccitt(h)]

lifu_cfg_calc_crc(cfg) ==
    Let(SubSeq(cfg, 1, OffCrc),
        LAMBDA hdr : IF hdr \in StoreHeaders THEN StoreHeaderCrc[hdr]
                     ELSE crc16_ccitt(hdr))

\* ----------------------------------------------------------------- helpers
\* strnlen(s, n): index of the first NUL among the first n bytes, else n
strnlen(s, n) ==
    IF \A i \in 1..n : s[i] # 0 THEN n
    ELSE (CHOOSE i \in 1..n : s[i] = 0 /\ \A j \in 1..(i - 1) : s[j] # 0) - 1

\* memchr(s, 0, n) != NULL
HasNul(s, n) == ~(\A i \in 1..n : s[i] # 0)

\* json[MAX-1] = 0, then everything after the first NUL is cleared
NormalizedJson(json) ==
    Let([json EXCEPT ![LIFU_CFG_JSON_MAX] = 0],
        LAMBDA j0 :
            Let(strnlen(j0, LIFU_CFG_JSON_MAX),
                LAMBDA used :
                    IF used < LIFU_CFG_JSON_MAX - 1
                    THEN [i \in 1..LIFU_CFG_JSON_MAX |->
                              IF i - 1 >= used + 1 THEN 0 ELSE j0[i]]
                    ELSE j0))

lifu_cfg_normalize_json(cfg) ==
    SubSeq(cfg, 1, OffJson) \o NormalizedJson(Json(cfg))

\* cfg with its crc field recomputed: cfg->crc = lifu_cfg_calc_crc(cfg)
WithCrc(cfg) == Poke(cfg, OffCrc, LE(lifu_cfg_calc_crc(cfg), 2))

\* defaults that start the sequence at 1
DefaultsSeqOne ==
    WithCrc(lifu_cfg_normalize_json(
                LE(LIFU_MAGIC, 4) \o LE(LIFU_VER, 4) \o LE(1, 4)
                \o Fill(SizeofCfg - OffCrc, 0)))

lifu_cfg_make_defaults ==
    WithCrc(lifu_cfg_normalize_json(
                LE(LIFU_MAGIC, 4) \o LE(LIFU_VER, 4) \o LE(0, 4)
                \o Fill(SizeofCfg - OffCrc, 0)))

lifu_cfg_is_valid(cfg) ==
    IF Magic(cfg) # LE(LIFU_MAGIC, 4) THEN FALSE
    ELSE IF Version(cfg) # LE(LIFU_VER, 4) THEN FALSE
    ELSE IF ~HasNul(Json(cfg), LIFU_CFG_JSON_MAX) THEN FALSE
    ELSE lifu_cfg_calc_crc(cfg) = Crc(cfg)

\* --------------------------------------------------------- flash hardware
\* What the flash controller does is outside the repository; the model gives
\* each HAL call the outcomes its status code allows.  A "fault" names the
\* one HAL call of an operation that does not succeed:
\*   e:  "none" | "unlock" | "HAL_ERROR" | "HAL_TIMEOUT"   (Flash_Erase)
\*   w:  "none" | "unlock" | "HAL_ERROR" | "HAL_TIMEOUT" | "stuck"
\*   at: the program call (1 = first doubleword) that w applies to
\* "stuck" is a doubleword whose cells do not take the programmed value:
\* HAL_FLASH_Program reports HAL_OK and the read-back differs.
NoFault == [e |-> "none", w |-> "none", at |-> 0]

ErasedDW == Fill(8, 255)

\* offset of an absolute address inside the modelled page
Off(addr) == addr - LIFU_CFG_PAGE_ADDR

\* *(uint64_t*)addr
ReadDW(fl, addr) == SubSeq(fl, Off(addr) + 1, Off(addr) + 8)

\* the value a stuck doubleword holds after programming dw: the first byte
\* that had bits to clear keeps them set
StuckDW(dw) ==
    IF \A i \in 1..8 : dw[i] = 255 THEN dw
    ELSE [dw EXCEPT ![CHOOSE i \in 1..8 :
                          dw[i] # 255 /\ \A j \in 1..(i - 1) : dw[j] = 255] = 255]

\* HAL_FLASH_Program(FLASH_TYPEPROGRAM_DOUBLEWORD, addr, dw) with outcome hw.
\* Programming a doubleword that is not erased is refused by the controller
\* (PROGERR) unless the data is all zero.
HAL_FLASH_Program(fl, addr, dw, hw) ==
    IF hw \in {HAL_ERROR, HAL_TIMEOUT}
    THEN [st |-> hw, flash |-> fl]
    ELSE IF ReadDW(fl, addr) # ErasedDW /\ dw # Fill(8, 0)
    THEN [st |-> HAL_ERROR, flash |-> fl]
    ELSE [st |-> HAL_OK,
          flash |-> Poke(fl, Off(addr), IF hw = "stuck" THEN StuckDW(dw) ELSE dw)]

\* The LOCK bit of the controller after the HAL calls of log, from the state
\* locked: HAL_FLASH_Unlock clears it, HAL_FLASH_Lock sets it, and a refused
\* unlock leaves it set.
RECURSIVE LockAfter(_, _)
LockAfter(locked0, log) ==
    IF log = <<>> THEN locked0
    ELSE LockAfter(CASE Head(log) = "Unlock" -> FALSE
                     [] Head(log) = "Lock" -> TRUE
                     [] OTHER -> locked0,
                   Tail(log))

\* ------------------------------------------------------- flash primitives
\* a page number rounded up instead of down
GetPageRoundedUp(Addr) ==
    IF Addr < FLASH_BASE + FLASH_BANK_SIZE
    THEN ((Addr - FLASH_BASE) + (FLASH_PAGE_SIZE - 1)) \div FLASH_PAGE_SIZE
    ELSE (Addr - (FLASH_BASE + FLASH_BANK_SIZE)) \div FLASH_PAGE_SIZE

GetPage(Addr) ==
    IF Addr < FLASH_BASE + FLASH_BANK_SIZE
    THEN (Addr - FLASH_BASE) \div FLASH_PAGE_SIZE
    ELSE (Addr - (FLASH_BASE + FLASH_BANK_SIZE)) \div FLASH_PAGE_SIZE

\* the dual-bank variant; for an address of bank 1 every variant of the
\* function gives FLASH_BANK_1
GetBank(Addr) ==
    IF Addr < FLASH_BASE + FLASH_BANK_SIZE THEN FLASH_BANK_1 ELSE FLASH_BANK_2

\* the uint32_t value of the integer d, as its four bytes: a negative d
\* wraps to 2^32 + d
U32Wrap(d) ==
    IF d >= 0 THEN LE(d, 4)
    ELSE [i \in 1..4 |-> 255 - LE((-d) - 1, 4)[i]]

\* HAL_FLASHEx_Erase of NbPages (a uint32_t) pages from Page: the modelled
\* page is erased when it is one of them
ErasePages(fl, Page, NbPages) ==
    IF Page <= CFG_PAGE_INDEX /\ Less32(LE(CFG_PAGE_INDEX - Page, 4), NbPages)
    THEN Fill(LIFU_CFG_PAGE_SIZE, 255)
    ELSE fl

\* the FLASH_EraseInitTypeDef that Flash_Erase fills in
EraseInit(start_address, end_address_exclusive) ==
    Let(GetPage(start_address), LAMBDA page_first :
    Let(GetPage(end_address_exclusive - 1), LAMBDA page_last :
        [Banks |-> GetBank(start_address),
         Page |-> page_first,
         NbPages |-> U32Wrap((page_last - page_first) + 1)]))

\* a Flash_Erase that unlocks before it looks at the range
FlashEraseUnlockFirst(fl, start_address, end_address_exclusive, f) ==
    IF f.e = "unlock"
    THEN [st |-> HAL_ERROR, flash |-> fl, log |-> <<"UnlockRefused">>,
          req |-> <<>>]
    ELSE IF end_address_exclusive <= start_address
    THEN [st |-> HAL_ERROR, flash |-> fl, log |-> <<"Unlock", "Lock">>,
          req |-> <<>>]
    ELSE Let(EraseInit(start_address, end_address_exclusive), LAMBDA erase :
         [st |-> IF f.e \in {HAL_ERROR, HAL_TIMEOUT} THEN f.e ELSE HAL_OK,
          flash |-> IF f.e \in {HAL_ERROR, HAL_TIMEOUT} THEN fl
                    ELSE ErasePages(fl, erase.Page, erase.NbPages),
          log |-> <<"Unlock", "Erase", "Lock">>,
          req |-> erase])

\* log: a refused HAL_FLASH_Unlock is entered as "UnlockRefused"; req: the
\* request handed to HAL_FLASHEx_Erase, <<>> when it is not called
Flash_Erase(fl, start_address, end_address_exclusive, f) ==
    IF end_address_exclusive <= start_address
    THEN [st |-> HAL_ERROR, flash |-> fl, log |-> <<>>, req |-> <<>>]
    ELSE IF f.e = "unlock"
    THEN [st |-> HAL_ERROR, flash |-> fl, log |-> <<"UnlockRefused">>,
          req |-> <<>>]
    ELSE Let(EraseInit(start_address, end_address_exclusive), LAMBDA erase :
         [st |-> IF f.e \in {HAL_ERROR, HAL_TIMEOUT} THEN f.e ELSE HAL_OK,
          flash |-> IF f.e \in {HAL_ERROR, HAL_TIMEOUT} THEN fl
                    ELSE ErasePages(fl, erase.Page, erase.NbPages),
          log |-> <<"Unlock", "Erase", "Lock">>,
          req |-> erase])

\* memcpy(dst, (const void*)address, size_bytes): dst with its first
\* size_bytes bytes replaced by the flash bytes from address on
Flash_Read(fl, address, dst, size_bytes) ==
    Poke(dst, 0, SubSeq(fl, Off(address) + 1, Off(address) + size_bytes))

\* hardware outcome of the n-th HAL_FLASH_Program call under fault f
HwAt(f, n) == IF f.at = n /\ f.w \in {HAL_ERROR, HAL_TIMEOUT, "stuck"}
              THEN f.w ELSE "none"

\* a last doubleword padded with zeros
ChunkZeroPadded(src, p, size) ==
    IF size >= 8 THEN SubSeq(src, p + 1, p + 8)
    ELSE SubSeq(src, p + 1, p + size) \o Fill(8 - size, 0)

\* the next 8 bytes to program: source bytes from index p (0-based), the
\* last ones padded with 0xFF when fewer than 8 are left
Chunk(src, p, size) ==
    IF size >= 8 THEN SubSeq(src, p + 1, p + 8)
    ELSE SubSeq(src, p + 1, p + size) \o Fill(8 - size, 255)

\* a programming loop that returns on a read-back mismatch without
\* HAL_FLASH_Lock
RECURSIVE WriteLoopLeavesOpen(_, _, _, _, _, _, _, _)
WriteLoopLeavesOpen(fl, addr, src, p, size, n, f, log) ==
    IF size = 0
    THEN [st |-> HAL_OK, flash |-> fl, log |-> Append(log, "Lock")]
    ELSE Let(Chunk(src, p, size), LAMBDA dw :
         Let(HAL_FLASH_Program(fl, addr, dw, HwAt(f, n + 1)), LAMBDA r :
             IF r.st # HAL_OK
             THEN [st |-> r.st, flash |-> r.flash,
                   log |-> log \o <<"Program", "Lock">>]
             ELSE IF ReadDW(r.flash, addr) # dw
             THEN [st |-> HAL_ERROR, flash |-> r.flash,
                   log |-> Append(log, "Program")]
             ELSE WriteLoopLeavesOpen(r.flash, addr + 8, src,
                            IF size >= 8 THEN p + 8 ELSE p + size,
                            IF size >= 8 THEN size - 8 ELSE 0,
                            n + 1, f, Append(log, "Program"))))

\* The programming loop of Flash_Write from source index p, with size bytes
\* left and n program calls made so far: program, read back and compare,
\* advance; HAL_FLASH_Lock on every way out.
RECURSIVE WriteLoop(_, _, _, _, _, _, _, _)
WriteLoop(fl, addr, src, p, size, n, f, log) ==
    IF size = 0
    THEN [st |-> HAL_OK, flash |-> fl, log |-> Append(log, "Lock")]
    ELSE Let(Chunk(src, p, size), LAMBDA dw :
         Let(HAL_FLASH_Program(fl, addr, dw, HwAt(f, n + 1)), LAMBDA r :
             IF r.st # HAL_OK
             THEN [st |-> r.st, flash |-> r.flash,
                   log |-> log \o <<"Program", "Lock">>]
             ELSE IF ReadDW(r.flash, addr) # dw
             THEN [st |-> HAL_ERROR, flash |-> r.flash,
                   log |-> log \o <<"Program", "Lock">>]
             ELSE WriteLoop(r.flash, addr + 8, src,
                            IF size >= 8 THEN p + 8 ELSE p + size,
                            IF size >= 8 THEN size - 8 ELSE 0,
                            n + 1, f, Append(log, "Program"))))

\* a Flash_Write that unlocks before it looks at the address
FlashWriteUnlockFirst(fl, address, src, size_bytes, f) ==
    IF size_bytes = 0
    THEN [st |-> HAL_OK, flash |-> fl, log |-> <<>>]
    ELSE IF f.w = "unlock"
    THEN [st |-> HAL_ERROR, flash |-> fl, log |-> <<"UnlockRefused">>]
    ELSE IF address % 8 # 0
    THEN [st |-> HAL_ERROR, flash |-> fl, log |-> <<"Unlock", "Lock">>]
    ELSE WriteLoop(fl, address, src, 0, size_bytes, 0, f, <<"Unlock">>)

Flash_Write(fl, address, src, size_bytes, f) ==
    IF size_bytes = 0
    THEN [st |-> HAL_OK, flash |-> fl, log |-> <<>>]
    ELSE IF address % 8 # 0
    THEN [st |-> HAL_ERROR, flash |-> fl, log |-> <<>>]
    ELSE IF f.w = "unlock"
    THEN [st |-> HAL_ERROR, flash |-> fl, log |-> <<"UnlockRefused">>]
    ELSE WriteLoop(fl, address, src, 0, size_bytes, 0, f, <<"Unlock">>)

\* ------------------------------------------------------------ config store
\* The store's memory is a record m = [flash, cfg, loaded]: the flash page,
\* g_cfg and g_cfg_loaded.  Every function returns the memory it leaves, the
\* status it returns (st) and the HAL calls it made (log).

\* sizeof(lifu_cfg_t) / sizeof(uint32_t): the length handed to Flash_Write
\* and Flash_Read, which take it as a number of bytes
CfgWords == SizeofCfg \div 4

\* write-back images with one step of lifu_cfg_writeback left out: the seq
\* bump, or the recomputation of the crc
WritebackImageNoBump(cfg) == WithCrc(lifu_cfg_normalize_json(cfg))

WritebackImageStaleCrc(cfg) ==
    lifu_cfg_normalize_json(Poke(cfg, OffSeq, Inc32(SeqOf(cfg))))

\* what write-back makes of g_cfg before it touches flash: seq bumped, json
\* normalised, crc recomputed
WritebackImage(cfg) ==
    Let(lifu_cfg_normalize_json(Poke(cfg, OffSeq, Inc32(SeqOf(cfg)))),
        LAMBDA norm : WithCrc(norm))

\* a write-back that goes on to program the page after a failed erase
EraseAndWriteProgramsAnyway(fl, cfg, loaded, f) ==
    Let(Flash_Erase(fl, LIFU_CFG_PAGE_ADDR, LIFU_CFG_PAGE_END, f), LAMBDA er :
        Let(Flash_Write(er.flash, LIFU_CFG_PAGE_ADDR, cfg, CfgWords, f),
            LAMBDA wr :
                [flash |-> wr.flash, cfg |-> cfg, loaded |-> loaded,
                 st |-> wr.st, log |-> er.log \o wr.log,
                 est |-> er.st, wst |-> wr.st]))

\* the erase and, when it succeeded, the programming of image cfg; est and
\* wst are what Flash_Erase and Flash_Write returned ("none": not called)
EraseAndWrite(fl, cfg, loaded, f) ==
    Let(Flash_Erase(fl, LIFU_CFG_PAGE_ADDR, LIFU_CFG_PAGE_END, f), LAMBDA er :
        IF er.st # HAL_OK
        THEN [flash |-> er.flash, cfg |-> cfg, loaded |-> loaded,
              st |-> er.st, log |-> er.log, est |-> er.st, wst |-> "none"]
        ELSE Let(Flash_Write(er.flash, LIFU_CFG_PAGE_ADDR, cfg, CfgWords, f),
                 LAMBDA wr :
                     [flash |-> wr.flash, cfg |-> cfg, loaded |-> loaded,
                      st |-> wr.st, log |-> er.log \o wr.log,
                      est |-> er.st, wst |-> wr.st]))

lifu_cfg_writeback(m, f) ==
    Let(WritebackImage(m.cfg),
        LAMBDA cfg : EraseAndWrite(m.flash, cfg, m.loaded, f))

lifu_cfg_load_raw(m) ==
    [flash |-> m.flash, loaded |-> m.loaded,
     cfg |-> Flash_Read(m.flash, LIFU_CFG_PAGE_ADDR, m.cfg, CfgWords)]

\* a lazy load that marks the store loaded only when the default write-back
\* succeeded
EnsureLoadedRetry(m, f) ==
    IF m.loaded
    THEN [flash |-> m.flash, cfg |-> m.cfg, loaded |-> TRUE, log |-> <<>>,
          ran |-> FALSE, wbst |-> "none"]
    ELSE Let(lifu_cfg_load_raw(m), LAMBDA raw :
         IF lifu_cfg_is_valid(raw.cfg)
         THEN [flash |-> raw.flash, cfg |-> raw.cfg, loaded |-> TRUE,
               log |-> <<>>, ran |-> TRUE, wbst |-> "none"]
         ELSE Let(lifu_cfg_writeback(
                      [flash |-> raw.flash, cfg |-> lifu_cfg_make_defaults,
                       loaded |-> raw.loaded], f),
                  LAMBDA wb :
                      [flash |-> wb.flash, cfg |-> wb.cfg,
                       loaded |-> wb.st = HAL_OK,
                       log |-> wb.log, ran |-> TRUE, wbst |-> wb.st]))

\* ran: the load-validate-default sequence was executed by this call;
\* wbst: "none", or the status of the default write-back, which the code
\* discards
lifu_cfg_ensure_loaded(m, f) ==
    IF m.loaded
    THEN [flash |-> m.flash, cfg |-> m.cfg, loaded |-> TRUE, log |-> <<>>,
          ran |-> FALSE, wbst |-> "none"]
    ELSE Let(lifu_cfg_load_raw(m), LAMBDA raw :
         IF lifu_cfg_is_valid(raw.cfg)
         THEN [flash |-> raw.flash, cfg |-> raw.cfg, loaded |-> TRUE,
               log |-> <<>>, ran |-> TRUE, wbst |-> "none"]
         ELSE Let(lifu_cfg_writeback(
                      [flash |-> raw.flash, cfg |-> lifu_cfg_make_defaults,
                       loaded |-> raw.loaded], f),
                  LAMBDA wb :
                      [flash |-> wb.flash, cfg |-> wb.cfg, loaded |-> TRUE,
                       log |-> wb.log, ran |-> TRUE, wbst |-> wb.st]))

Mem(r) == [flash |-> r.flash, cfg |-> r.cfg, loaded |-> r.loaded]

\* Every public function returns, besides the memory it leaves: st, its
\* return value; log, its HAL calls; out, the record handed to the caller;
\* ran and wbst of its lazy load; seq0, the cached seq once loaded and before
\* the function changes it.
lifu_cfg_get(m, f1) ==
    Let(lifu_cfg_ensure_loaded(m, f1), LAMBDA ld :
        [flash |-> ld.flash, cfg |-> ld.cfg, loaded |-> ld.loaded,
         st |-> "ptr", log |-> ld.log, out |-> ld.cfg,
         ran |-> ld.ran, wbst |-> ld.wbst, seq0 |-> SeqOf(ld.cfg)])

\* a snapshot that runs the lazy load before it looks at out
SnapshotLoadsFirst(m, outPresent, f1) ==
    Let(lifu_cfg_ensure_loaded(m, f1), LAMBDA ld :
        [flash |-> ld.flash, cfg |-> ld.cfg, loaded |-> ld.loaded,
         st |-> IF outPresent THEN HAL_OK ELSE HAL_ERROR, log |-> ld.log,
         out |-> IF outPresent THEN ld.cfg ELSE <<>>,
         ran |-> ld.ran, wbst |-> ld.wbst, seq0 |-> SeqOf(ld.cfg)])

\* outPresent = FALSE is a call with out == NULL
lifu_cfg_snapshot(m, outPresent, f1) ==
    IF ~outPresent
    THEN [flash |-> m.flash, cfg |-> m.cfg, loaded |-> m.loaded,
          st |-> HAL_ERROR, log |-> <<>>, out |-> <<>>,
          ran |-> FALSE, wbst |-> "none", seq0 |-> SeqOf(m.cfg)]
    ELSE Let(lifu_cfg_ensure_loaded(m, f1), LAMBDA ld :
        [flash |-> ld.flash, cfg |-> ld.cfg, loaded |-> ld.loaded,
         st |-> HAL_OK, log |-> ld.log, out |-> ld.cfg,
         ran |-> ld.ran, wbst |-> ld.wbst, seq0 |-> SeqOf(ld.cfg)])

\* a merge that takes the whole candidate, header included
SaveMergeTrustsCandidate(cfg, new_cfg) ==
    SubSeq(new_cfg, 1, OffJson)
    \o [Json(new_cfg) EXCEPT ![LIFU_CFG_JSON_MAX] = 0]

\* g_cfg after lifu_cfg_save has merged the candidate and before write-back.
\* Lines 175-177 (and 58-60 of the defaults) assign hv_settng, hv_enabled and
\* auto_on, which the packed struct of lifu_config.h does not have (its 16
\* header bytes are magic, version, seq, crc, reserved): they occupy no byte
\* of the record.
SaveMerge(cfg, new_cfg) ==
    LE(LIFU_MAGIC, 4) \o LE(LIFU_VER, 4) \o SubSeq(cfg, OffSeq + 1, OffJson)
    \o [Json(new_cfg) EXCEPT ![LIFU_CFG_JSON_MAX] = 0]

\* a public function's result from its lazy load ld and its write-back wb
Written(ld, wb) ==
    [flash |-> wb.flash, cfg |-> wb.cfg, loaded |-> wb.loaded,
     st |-> wb.st, log |-> ld.log \o wb.log, out |-> <<>>,
     ran |-> ld.ran, wbst |-> ld.wbst, seq0 |-> SeqOf(ld.cfg),
     prim |-> [erase |-> wb.est, write |-> wb.wst, log |-> wb.log]]

\* the write-back of record cfg that ends a public function
Finish(ld, cfg, f2) ==
    Let(lifu_cfg_writeback([flash |-> ld.flash, cfg |-> cfg,
                            loaded |-> ld.loaded], f2),
        LAMBDA wb : Written(ld, wb))

lifu_cfg_save(m, new_cfg, f1, f2) ==
    Let(lifu_cfg_ensure_loaded(m, f1),
        LAMBDA ld : Finish(ld, SaveMerge(ld.cfg, new_cfg), f2))

lifu_cfg_commit(m, f1, f2) ==
    Let(lifu_cfg_ensure_loaded(m, f1), LAMBDA ld : Finish(ld, ld.cfg, f2))

lifu_cfg_factory_reset(m, f1, f2) ==
    Let(lifu_cfg_ensure_loaded(m, f1),
        LAMBDA ld : Finish(ld, lifu_cfg_make_defaults, f2))

\* ------------------------------------------------------------------ inputs
\* program calls one write-back makes
NChunks == (CfgWords + 7) \div 8
\* payload bytes that lie inside the first CfgWords bytes of the record
Window == CfgWords - OffJson

\* the failures of one call of a primitive: in Flash_Erase (unlock refused,
\* erase error, erase timeout) or in Flash_Write (unlock refused, program
\* error on the first doubleword, timeout on the second, a doubleword that
\* reads back wrong)
BadFaults ==
    {[e |-> x, w |-> "none", at |-> 0] : x \in {"unlock", HAL_ERROR, HAL_TIMEOUT}}
    \cup {[e |-> "none", w |-> "unlock", at |-> 0],
          [e |-> "none", w |-> HAL_ERROR, at |-> 1],
          [e |-> "none", w |-> HAL_TIMEOUT, at |-> 2],
          [e |-> "none", w |-> "stuck", at |-> 2]}

Faults == {NoFault} \cup BadFaults

\* the failures the store's write-backs meet in the model: a refused unlock
\* leaves the page as an erase error (untouched) or a program error on the
\* first doubleword (erased) does, and is left to the direct calls
StoreFaults == {f \in BadFaults : f.e # "unlock" /\ f.w # "unlock"}

\* a caller's text: len characters 'A', a NUL when there is room for one,
\* and the byte tail in every position after it
Payload(len, tail) ==
    [i \in 1..LIFU_CFG_JSON_MAX |->
        IF i <= len THEN 65 ELSE IF i = len + 1 THEN 0 ELSE tail]

\* a text one byte longer than the window; a text that fills the capacity
\* and has no NUL; "A" followed by garbage after its NUL
Payloads ==
    {Payload(Window + 1, 0), Payload(LIFU_CFG_JSON_MAX, 0), Payload(1, 66)}

\* candidates handed to save: the header a snapshot would carry, and a
\* foreign header
Candidates ==
    {MkCfg(LIFU_MAGIC, LIFU_VER, 0, 0, 0, j) : j \in Payloads}
    \cup {MkCfg(305419896, 7, 4000, 4660, 0, Payload(0, 0))}

ZeroCfg == Fill(SizeofCfg, 0)
ErasedPage == Fill(LIFU_CFG_PAGE_SIZE, 255)

\* a record with a matching crc
RecAt(seq, json) ==
    LET c == Poke(MkCfg(LIFU_MAGIC, LIFU_VER, 0, 0, 0, json), OffSeq, seq)
    IN  Poke(c, OffCrc, LE(lifu_cfg_calc_crc(c), 2))

Rec(seq, json) == RecAt(LE(seq, 4), json)

\* the page a completed write-back of cfg leaves
Persisted(cfg) ==
    Flash_Write(ErasedPage, LIFU_CFG_PAGE_ADDR, cfg, CfgWords, NoFault).flash

\* g_cfg as the first load after a reset reads it from page fl
LoadView(fl) ==
    lifu_cfg_load_raw([flash |-> fl, cfg |-> ZeroCfg, loaded |-> FALSE]).cfg

\* pages the device can wake up with: erased, zeroed, a valid record, a valid
\* record with the last seq, and records with one field off
InitFlashes ==
    LET good == Persisted(Rec(1, Payload(1, 0)))
    IN  { ErasedPage,
          Fill(LIFU_CFG_PAGE_SIZE, 0),
          good,
          Persisted(RecAt(Fill(4, 255), Payload(1, 0))),
          Poke(good, OffMagic, <<239, 190, 173, 222>>),
          Poke(good, OffVersion, LE(LIFU_VER - 1, 4)),
          Poke(good, OffCrc, LE((Crc(good) + 1) % U16Mod, 2)) }

\* ------------------------------------------------------------------- state
VARIABLES
    flash,          \* the bytes of the configuration page
    g_cfg,          \* the RAM copy (static lifu_cfg_t g_cfg)
    g_cfg_loaded,   \* static bool g_cfg_loaded
    lastOp,         \* the operation that produced this state
    lastRet,        \* its return value
    lastArg,        \* its argument (the candidate of save, the request of Flash_Write)
    lastOut,        \* the record handed out by get/snapshot since the last change of g_cfg
    halLog,         \* the HAL calls the operation made, in order
    pre,            \* loaded flag, flash magic and cached seq the operation began with
    loads,          \* load-validate-default runs since reset
    defaultWb,      \* status of the default write-back of this lifetime's load, or "none"
    hist,           \* what led here: save / power loss / corruption, then reset, then get
    faults,         \* hardware failures, power losses and corruptions so far
    prim,           \* what the primitives of the operation's own write-back returned, and its HAL calls
    locked,         \* the LOCK bit of the flash controller
    lastErase       \* the request the last direct Flash_Erase handed to HAL_FLASHEx_Erase

vars == <<flash, g_cfg, g_cfg_loaded, lastOp, lastRet, lastArg, lastOut,
          halLog, pre, loads, defaultWb, hist, faults, prim, locked,
          lastErase>>

CurMem == [flash |-> flash, cfg |-> g_cfg, loaded |-> g_cfg_loaded]

NoHist == [tag |-> "none", json |-> <<>>, prev |-> <<>>, seq |-> <<>>, ok |-> FALSE]

\* the operation ran no write-back of its own
NoPrim == [erase |-> "none", write |-> "none", log |-> <<>>]

\* the lazy load of the next call would write defaults
WouldDefault == ~g_cfg_loaded /\ ~lifu_cfg_is_valid(LoadView(flash))

\* <<f1, f2>>: what the default write-back of the lazy load and the
\* write-back of the operation itself meet; at most one of them fails, and
\* only while the run has failures left
FaultPairs ==
    {<<NoFault, NoFault>>}
    \cup (IF faults < MaxFaults
          THEN {<<NoFault, f>> : f \in StoreFaults}
               \cup (IF WouldDefault THEN {<<f, NoFault>> : f \in StoreFaults} ELSE {})
          ELSE {})

\* the same for get and snapshot, which write only through the lazy load
LoadFaults ==
    {NoFault} \cup (IF faults < MaxFaults /\ WouldDefault THEN StoreFaults ELSE {})

FaultsAfter(f1, f2) == IF f1 = NoFault /\ f2 = NoFault THEN faults ELSE faults + 1

\* write-backs are started only from a seq the bound allows (or from the
\* last 32-bit value, to see the wrap)
SeqOk(seq) == IF Less32(seq, LE(MaxSeq, 4)) THEN TRUE ELSE seq = Fill(4, 255)

Init ==
    /\ flash \in InitFlashes
    /\ g_cfg = ZeroCfg
    /\ g_cfg_loaded = FALSE
    /\ lastOp = "init"
    /\ lastRet = "none"
    /\ lastArg = <<>>
    /\ lastOut = <<>>
    /\ halLog = <<>>
    /\ pre = [loaded |-> FALSE, magic |-> LE(0, 4), seq |-> LE(0, 4)]
    /\ loads = 0
    /\ defaultWb = "none"
    /\ hist = NoHist
    /\ faults = 0
    /\ prim = NoPrim
    /\ locked = TRUE
    /\ lastErase = <<>>

\* the store's memory and the observations every store call leaves
StoreStep(r, op, arg) ==
    /\ flash' = r.flash
    /\ g_cfg' = r.cfg
    /\ g_cfg_loaded' = r.loaded
    /\ lastOp' = op
    /\ lastRet' = r.st
    /\ lastArg' = arg
    /\ halLog' = r.log
    /\ pre' = [loaded |-> g_cfg_loaded, magic |-> Magic(flash), seq |-> r.seq0]
    /\ loads' = IF r.ran THEN loads + 1 ELSE loads
    /\ defaultWb' = IF r.ran THEN r.wbst ELSE defaultWb
    /\ locked' = LockAfter(locked, r.log)
    /\ UNCHANGED lastErase

HistAfterRead ==
    CASE hist.tag = "saved" -> [hist EXCEPT !.tag = "saved_get"]
      [] hist.tag = "saved_reset" -> [hist EXCEPT !.tag = "saved_reset_get"]
      [] hist.tag = "cut" -> [hist EXCEPT !.tag = "cut_get"]
      [] hist.tag = "rot" -> [hist EXCEPT !.tag = "rot_get"]
      [] OTHER -> NoHist

Get ==
    \E f1 \in LoadFaults :
    \E r \in {lifu_cfg_get(CurMem, f1)} :
        /\ StoreStep(r, "get", <<>>)
        /\ lastOut' = r.out
        /\ hist' = HistAfterRead
        /\ faults' = FaultsAfter(f1, NoFault)
        /\ prim' = NoPrim

Snapshot ==
    \E f1 \in LoadFaults :
    \E r \in {lifu_cfg_snapshot(CurMem, TRUE, f1)} :
        /\ StoreStep(r, "snapshot", <<>>)
        /\ lastOut' = r.out
        /\ hist' = HistAfterRead
        /\ faults' = FaultsAfter(f1, NoFault)
        /\ prim' = NoPrim

SnapshotNull ==
    \E r \in {lifu_cfg_snapshot(CurMem, FALSE, NoFault)} :
        /\ StoreStep(r, "snapshot_null", <<>>)
        /\ hist' = NoHist
        /\ prim' = NoPrim
        /\ UNCHANGED <<lastOut, faults>>

Save ==
    \E new_cfg \in Candidates, ff \in FaultPairs :
    \E r \in {lifu_cfg_save(CurMem, new_cfg, ff[1], ff[2])} :
        /\ SeqOk(r.seq0)
        /\ StoreStep(r, "save", new_cfg)
        /\ lastOut' = <<>>
        /\ hist' = [tag |-> "saved", json |-> Json(new_cfg), prev |-> <<>>,
                    seq |-> SeqOf(r.cfg), ok |-> r.st = HAL_OK]
        /\ faults' = FaultsAfter(ff[1], ff[2])
        /\ prim' = r.prim

Commit ==
    \E ff \in FaultPairs :
    \E r \in {lifu_cfg_commit(CurMem, ff[1], ff[2])} :
        /\ SeqOk(r.seq0)
        /\ StoreStep(r, "commit", <<>>)
        /\ lastOut' = <<>>
        /\ hist' = IF hist.tag \in {"saved", "saved_get"} /\ ~hist.ok
                   THEN [hist EXCEPT !.tag = "failed_save_commit"]
                   ELSE NoHist
        /\ faults' = FaultsAfter(ff[1], ff[2])
        /\ prim' = r.prim

FactoryReset ==
    \E ff \in FaultPairs :
    \E r \in {lifu_cfg_factory_reset(CurMem, ff[1], ff[2])} :
        /\ StoreStep(r, "factory_reset", <<>>)
        /\ lastOut' = <<>>
        /\ hist' = NoHist
        /\ faults' = FaultsAfter(ff[1], ff[2])
        /\ prim' = r.prim

\* what a reset leaves of the RAM state; flash, hist and faults are set by
\* the caller
ResetRam(op) ==
    /\ g_cfg' = ZeroCfg
    /\ g_cfg_loaded' = FALSE
    /\ lastOp' = op
    /\ lastRet' = "none"
    /\ lastArg' = <<>>
    /\ lastOut' = <<>>
    /\ halLog' = <<>>
    /\ pre' = [loaded |-> g_cfg_loaded, magic |-> Magic(flash), seq |-> SeqOf(g_cfg)]
    /\ loads' = 0
    /\ defaultWb' = "none"
    /\ prim' = NoPrim
    /\ locked' = TRUE
    /\ UNCHANGED lastErase

\* the process restarts while no operation is running
Restart ==
    /\ lastOp # "restart"
    /\ ResetRam("restart")
    /\ UNCHANGED <<flash, faults>>
    /\ hist' = IF hist.tag = "saved" /\ hist.ok
               THEN [hist EXCEPT !.tag = "saved_reset"] ELSE NoHist

\* the page when power is lost in a write-back of img over page fl: before
\* the erase (k = -1), or after the erase and k program calls
PowerCut(fl, img, k) ==
    IF k < 0 THEN fl
    ELSE Flash_Write(ErasedPage, LIFU_CFG_PAGE_ADDR, img,
                     IF 8 * k < CfgWords THEN 8 * k ELSE CfgWords, NoFault).flash

\* flash and g_cfg as the interrupted operation op hands them to write-back:
\* the default write-back of the lazy load ("load"), or the operation's own
\* write-back after a lazy load that completed
CutBase(op, new_cfg) ==
    IF op = "load"
    THEN [flash |-> flash, cfg |-> lifu_cfg_make_defaults]
    ELSE Let(lifu_cfg_ensure_loaded(CurMem, NoFault), LAMBDA ld :
             [flash |-> ld.flash,
              cfg |-> CASE op = "save" -> SaveMerge(ld.cfg, new_cfg)
                        [] op = "commit" -> ld.cfg
                        [] op = "factory_reset" -> lifu_cfg_make_defaults])

\* the operations whose write-back a power loss can interrupt, with the
\* candidate of a save
CutOps ==
    {<<"save", c>> : c \in Candidates}
    \cup {<<"commit", ZeroCfg>>, <<"factory_reset", ZeroCfg>>}
    \cup (IF WouldDefault THEN {<<"load", ZeroCfg>>} ELSE {})

\* power is lost during the write-back of a store operation; the process
\* comes up again with zeroed RAM
PowerLoss ==
    \E oc \in CutOps, k \in (-1)..NChunks :
    \E b \in {CutBase(oc[1], oc[2])} :
    \E img \in {WritebackImage(b.cfg)}, old \in {LoadView(b.flash)} :
        /\ faults < MaxFaults
        /\ IF oc[1] \in {"save", "commit"} THEN SeqOk(SeqOf(b.cfg)) ELSE TRUE
        /\ flash' = PowerCut(b.flash, img, k)
        /\ ResetRam("power_loss")
        /\ hist' = [tag |-> "cut", json |-> Json(img), prev |-> Json(old),
                    seq |-> SeqOf(img), ok |-> lifu_cfg_is_valid(old)]
        /\ faults' = faults + 1

\* payload positions (1-based) whose corruption the model considers: the
\* first byte, a byte of the zero padding inside the first CfgWords bytes of
\* the record, and a byte outside them
RotPositions == {1, 3, Window + 1}

\* while the device is off, one payload byte of a valid record at rest
\* changes; header and crc stay as they are
FlashRot ==
    \E i \in RotPositions :
        /\ faults < MaxFaults
        /\ lifu_cfg_is_valid(LoadView(flash))
        /\ flash[OffJson + i] # 66
        /\ flash' = [flash EXCEPT ![OffJson + i] = 66]
        /\ ResetRam("rot")
        /\ hist' = [NoHist EXCEPT !.tag = "rot"]
        /\ faults' = faults + 1

Next ==
    \/ Get
    \/ Snapshot
    \/ SnapshotNull
    \/ Save
    \/ Commit
    \/ FactoryReset
    \/ Restart
    \/ PowerLoss
    \/ FlashRot

Spec == Init /\ [][Next]_vars

\* ------------------------------------------- direct calls of the primitives
\* addresses, lengths, the buffer and the failures of direct calls of
\* Flash_Write
WriteAddrs == {LIFU_CFG_PAGE_ADDR + o : o \in {0, 1, 4, 8}}
WriteSizes == {0, 1, 8, 9}
WriteSrc == [i \in 1..16 |-> 80 + i]
WriteFaults == {f \in Faults : f.e = "none"}

FlashWriteCall ==
    \E address \in WriteAddrs, size_bytes \in WriteSizes, f \in WriteFaults :
    \E r \in {Flash_Write(flash, address, WriteSrc, size_bytes, f)} :
        /\ flash' = r.flash
        /\ lastOp' = "Flash_Write"
        /\ lastRet' = r.st
        /\ lastArg' = [address |-> address, size |-> size_bytes]
        /\ halLog' = r.log
        /\ locked' = LockAfter(locked, r.log)
        /\ UNCHANGED <<g_cfg, g_cfg_loaded, lastOut, pre, loads, defaultWb,
                       hist, faults, prim, lastErase>>

\* ranges, and the failures, of direct calls of Flash_Erase: from the start
\* of the page before the configuration page, or from inside either page, to
\* an end inside either page or at the end of flash
EraseStarts ==
    {LIFU_CFG_PAGE_ADDR + o : o \in {-FLASH_PAGE_SIZE, -8, 0, 8}}
EraseEnds ==
    {LIFU_CFG_PAGE_ADDR + o : o \in {-8, 0, 1, 8, FLASH_PAGE_SIZE}}
EraseFaults == {f \in Faults : f.w = "none"}

FlashEraseCall ==
    \E start_address \in EraseStarts, end_address \in EraseEnds,
       f \in EraseFaults :
    \E r \in {Flash_Erase(flash, start_address, end_address, f)} :
        /\ flash' = r.flash
        /\ lastOp' = "Flash_Erase"
        /\ lastRet' = r.st
        /\ lastArg' = [start |-> start_address, end |-> end_address,
                       hw |-> f.e]
        /\ halLog' = r.log
        /\ locked' = LockAfter(locked, r.log)
        /\ lastErase' = r.req
        /\ UNCHANGED <<g_cfg, g_cfg_loaded, lastOut, pre, loads, defaultWb,
                       hist, faults, prim>>

FlashNext ==
    \/ FlashWriteCall
    \/ FlashEraseCall

FlashSpec == Init /\ [][FlashNext]_vars

TypeOK ==
    /\ Len(flash) = LIFU_CFG_PAGE_SIZE
    /\ Len(g_cfg) = SizeofCfg
    /\ \A i \in 1..LIFU_CFG_PAGE_SIZE : flash[i] \in Byte /\ g_cfg[i] \in Byte
    /\ g_cfg_loaded \in BOOLEAN
    /\ loads \in 0..1
    /\ faults \in 0..MaxFaults

\* ------------------------------------------------------------------ claims
\* the text of a payload: its bytes before the first NUL
Text(json) == SubSeq(json, 1, strnlen(json, LIFU_CFG_JSON_MAX))

\* a text laid out over the whole capacity: the text, then zeros
Padded(text) ==
    [i \in 1..LIFU_CFG_JSON_MAX |-> IF i <= Len(text) THEN text[i] ELSE 0]

\* a text cut to capacity - 1 characters
Truncated(text) ==
    IF Len(text) > LIFU_CFG_JSON_MAX - 1
    THEN SubSeq(text, 1, LIFU_CFG_JSON_MAX - 1) ELSE text

ReadOps == {"get", "snapshot"}

\* this state follows the first get or snapshot of a process lifetime
FirstRead == lastOp \in ReadOps /\ ~pre.loaded

NoEraseNoProgram(log) ==
    \A i \in 1..Len(log) : log[i] \notin {"Erase", "Program"}

\* C1 (as the spec states it): after a successful save of a payload shorter
\* than the capacity and a restart, the first get returns that payload over
\* the whole capacity and the seq that was written.
C1_RoundTripAcrossRestart ==
    (hist.tag = "saved_reset_get"
        /\ strnlen(hist.json, LIFU_CFG_JSON_MAX) < LIFU_CFG_JSON_MAX)
    => /\ Json(lastOut) = Padded(Text(hist.json))
       /\ SeqOf(lastOut) = hist.seq

\* C2 (as the spec states it): after a power loss during a write-back, a
\* page that passes validation on the next lazy load carries the payload
\* persisted before or the payload that was being written.
C2_NoTornRecordValidates ==
    (hist.tag = "cut_get" /\ defaultWb = "none")
    => \/ Json(lastOut) = hist.prev
       \/ Json(lastOut) = hist.json

\* C3 (as the spec states it): when one payload byte of a valid record at
\* rest changes and header and crc stay, the next lazy load rejects the
\* record and substitutes defaults.
C3_PayloadChangeRejected ==
    hist.tag = "rot_get" => defaultWb # "none"

C7_ValidAtRestAfterLoad ==
    FirstRead => lifu_cfg_is_valid(flash) /\ flash = g_cfg

\* C8: a get or snapshot right after a save returns magic and version as
\* expected, the candidate's text cut to capacity - 1 characters and
\* NUL-terminated, and a crc equal to the recomputation over that record.
C8_RamRoundTrip ==
    hist.tag = "saved_get"
    => /\ Magic(lastOut) = LE(LIFU_MAGIC, 4)
       /\ Version(lastOut) = LE(LIFU_VER, 4)
       /\ HasNul(Json(lastOut), LIFU_CFG_JSON_MAX)
       /\ Text(Json(lastOut)) = Truncated(Text(hist.json))
       /\ Crc(lastOut) = lifu_cfg_calc_crc(lastOut)

\* C8 (witness): a get right after the save of a text that fills the
\* capacity, which comes back one character shorter.
C8_Witness ==
    /\ hist.tag = "saved_get"
    /\ Len(Text(hist.json)) = LIFU_CFG_JSON_MAX
    /\ Len(Text(Json(lastOut))) = LIFU_CFG_JSON_MAX - 1

\* C9: the load-validate-default sequence runs at most once per lifetime,
\* and a get or snapshot that follows another with no change of the record
\* in between returns the same bytes, leaves flash as it is and makes no
\* erase or program call.
C9_SingleLoadIdempotentRead ==
    [][/\ loads' <= 1
       /\ (lastOp' \in ReadOps /\ lastOut # <<>>)
            => /\ lastOut' = lastOut
               /\ flash' = flash
               /\ NoEraseNoProgram(halLog')]_vars

\* C9 (witness): a second read in a lifetime whose default write-back
\* failed; the load has still run once.
C9_Witness ==
    /\ lastOp \in ReadOps
    /\ pre.loaded
    /\ loads = 1
    /\ defaultWb \in {HAL_ERROR, HAL_TIMEOUT}

\* C10: after a successful save the cached record has magic and version as
\* expected, the previous cached seq + 1 (modulo 2^32) and the recomputed
\* crc, whatever the candidate's header holds, and the persisted header is
\* the cached one.
C10_SaveFieldIsolation ==
    (lastOp = "save" /\ lastRet = HAL_OK)
    => /\ Magic(g_cfg) = LE(LIFU_MAGIC, 4)
       /\ Version(g_cfg) = LE(LIFU_VER, 4)
       /\ SeqOf(g_cfg) = Inc32(pre.seq)
       /\ Crc(g_cfg) = lifu_cfg_calc_crc(g_cfg)
       /\ SubSeq(flash, 1, OffJson) = SubSeq(g_cfg, 1, OffJson)

\* C10 (witness): a successful save of a candidate whose magic, version,
\* seq and crc are all foreign.
C10_Witness ==
    /\ lastOp = "save"
    /\ lastRet = HAL_OK
    /\ Magic(lastArg) # LE(LIFU_MAGIC, 4)
    /\ Version(lastArg) # LE(LIFU_VER, 4)
    /\ SeqOf(lastArg) # SeqOf(g_cfg)

\* the operations that end in a write-back of their own
WriteOps == {"save", "commit", "factory_reset"}

\* how often the HAL call named call occurs in log
Count(log, call) == Cardinality({i \in 1..Len(log) : log[i] = call})

\* the doublewords of the page from the n-th on (1-based) are erased
ErasedFrom(fl, n) ==
    \A i \in n..PageDW : ReadDW(fl, LIFU_CFG_PAGE_ADDR + 8 * (i - 1)) = ErasedDW

C12_ScopedLock == locked

\* C12 (witness): a Flash_Write that unlocked, programmed, found the
\* read-back different and returned HAL_ERROR with the controller locked.
C12_Witness ==
    /\ lastOp = "Flash_Write"
    /\ lastRet = HAL_ERROR
    /\ Count(halLog, "Program") = 2
    /\ halLog[Len(halLog)] = "Lock"
    /\ locked

\* C13 (as the spec states it): after a save, commit or factoryReset that
\* returned success, every byte of the flash page equals the corresponding
\* byte of the cached record.
C13_WholePageWriteback ==
    (lastOp \in WriteOps /\ lastRet = HAL_OK) => flash = g_cfg

\* the operations of the store
StoreOps == ReadOps \cup WriteOps \cup {"snapshot_null"}

\* a payload with a NUL within its capacity and zeros after the first NUL
NormalForm(json) ==
    /\ HasNul(json, LIFU_CFG_JSON_MAX)
    /\ \A i \in 1..LIFU_CFG_JSON_MAX :
           i > strnlen(json, LIFU_CFG_JSON_MAX) => json[i] = 0

\* C14 (as the spec states it): whenever a store operation has returned,
\* the cached payload contains a NUL and every byte after the first NUL is
\* zero.
C14_CachePayloadNormalForm ==
    lastOp \in StoreOps => NormalForm(Json(g_cfg))

\* C15 (as the spec states it): when the write-back of a save fails, the
\* cache keeps the candidate's payload and the bumped seq; a following get
\* returns that payload; a following successful commit persists it, with the
\* seq after the failed save plus 1 (two above the seq before the save).
C15_SaveFailureCacheAhead ==
    /\ (lastOp = "save" /\ lastRet # HAL_OK)
         => /\ Text(Json(g_cfg)) = Truncated(Text(Json(lastArg)))
            /\ SeqOf(g_cfg) = Inc32(pre.seq)
    /\ (hist.tag = "saved_get" /\ ~hist.ok)
         => /\ Text(Json(lastOut)) = Truncated(Text(hist.json))
            /\ SeqOf(lastOut) = hist.seq
    /\ (hist.tag = "failed_save_commit" /\ lastRet = HAL_OK)
         => /\ SeqOf(g_cfg) = Inc32(hist.seq)
            /\ SeqOf(LoadView(flash)) = SeqOf(g_cfg)
            /\ Text(Json(LoadView(flash))) = Truncated(Text(hist.json))

\* size rounded up to whole doublewords
Span(size) == 8 * ((size + 7) \div 8)

\* the size bytes of page fl from offset off on are erased
ErasedRange(fl, off, size) == \A i \in 1..size : fl[off + i] = 255

\* C16: a Flash_Write at an aligned address over an erased destination that
\* returns HAL_OK leaves the source bytes at the address and 0xFF from the
\* end of the data to the next 8-byte boundary; a call that leaves a
\* doubleword different from what was requested returns an error, and a call
\* that returns an error has changed nothing after the last doubleword it
\* programmed.
C16_FlashWritePost ==
    [][(lastOp' = "Flash_Write" /\ lastArg'.address % 8 = 0)
         => LET off == Off(lastArg'.address)
                n == lastArg'.size
                done == Count(halLog', "Program")
            IN  /\ (ErasedRange(flash, off, Span(n)) /\ lastRet' = HAL_OK)
                     => /\ \A i \in 1..n : flash'[off + i] = WriteSrc[i]
                        /\ \A i \in (n + 1)..Span(n) : flash'[off + i] = 255
                /\ (\E k \in 1..done :
                        SubSeq(flash', off + 8 * (k - 1) + 1, off + 8 * k)
                            # Chunk(WriteSrc, 8 * (k - 1), n - 8 * (k - 1)))
                     => lastRet' # HAL_OK
                /\ lastRet' # HAL_OK
                     => \A i \in (off + 8 * done + 1)..LIFU_CFG_PAGE_SIZE :
                            flash'[i] = flash[i]]_vars

\* C16 (witness): a successful Flash_Write of 9 bytes at the second
\* doubleword of the page: the ninth source byte is followed by 0xFF.
C16_Witness ==
    /\ lastOp = "Flash_Write"
    /\ lastRet = HAL_OK
    /\ lastArg.address = LIFU_CFG_PAGE_ADDR + 8
    /\ lastArg.size = 9
    /\ flash[8 + 9] = WriteSrc[9]
    /\ flash[8 + 10] = 255

\* the pages of flash that have a byte in [start, end)
PagesOf(start, end) ==
    {p \in 0..CFG_PAGE_INDEX :
        /\ FLASH_BASE + p * FLASH_PAGE_SIZE < end
        /\ start < FLASH_BASE + (p + 1) * FLASH_PAGE_SIZE}

\* the pages of flash an erase request names
Requested(req) ==
    {p \in 0..CFG_PAGE_INDEX :
        req.Page <= p /\ Less32(LE(p - req.Page, 4), req.NbPages)}

\* this state follows a direct Flash_Erase of a non-empty range
ErasedNonEmpty ==
    /\ lastOp = "Flash_Erase"
    /\ lastArg.start < lastArg.end

\* the status of HAL_FLASHEx_Erase in the call that led here
EraseStatus == IF lastArg.hw = "none" THEN HAL_OK ELSE lastArg.hw

\* the request names exactly the pages of the range: first page, count
\* (not wrapped) and set
ExactPages ==
    LET pages == PagesOf(lastArg.start, lastArg.end)
    IN  /\ lastErase # <<>>
        /\ lastErase.Banks = FLASH_BANK_1
        /\ lastErase.Page = CHOOSE p \in pages : \A q \in pages : p <= q
        /\ lastErase.NbPages = LE(Cardinality(pages), 4)
        /\ Requested(lastErase) = pages

\* C17 (amended): for a non-empty range inside flash, when the controller
\* unlocks, Flash_Erase requests the erasure of exactly the pages of the
\* range and returns the status of that erase; when the unlock is refused it
\* requests no erase and returns the error of the unlock.
C17_EraseCoveringSet ==
    ErasedNonEmpty
    => IF lastArg.hw = "unlock"
       THEN lastErase = <<>> /\ lastRet = HAL_ERROR
                             /\ Count(halLog, "Erase") = 0
       ELSE ExactPages /\ lastRet = EraseStatus

\* C17 (witness): an erase from the last doubleword of page 126 to the
\* first byte of page 127 requested both pages and returned the timeout of
\* the hardware.
C17_Witness ==
    /\ ErasedNonEmpty
    /\ lastArg.start = LIFU_CFG_PAGE_ADDR - 8
    /\ lastArg.end = LIFU_CFG_PAGE_ADDR + 1
    /\ lastErase # <<>>
    /\ lastErase.Page = CFG_PAGE_INDEX - 1
    /\ lastErase.NbPages = LE(2, 4)
    /\ lastRet = HAL_TIMEOUT

\* C17 (as the spec states it): for every non-empty range inside flash
\* Flash_Erase requests the erasure of exactly the pages of the range and
\* returns the status of that erase.
C17_Original ==
    ErasedNonEmpty => ExactPages /\ lastRet = EraseStatus

\* C18: a Flash_Erase whose end is not above its start returns HAL_ERROR,
\* makes no HAL call (it does not unlock), requests no erase and changes no
\* flash byte.
C18_EraseArgumentCheck ==
    [][(lastOp' = "Flash_Erase" /\ lastArg'.end <= lastArg'.start)
         => /\ lastRet' = HAL_ERROR
            /\ halLog' = <<>>
            /\ lastErase' = <<>>
            /\ flash' = flash]_vars

\* C18 (witness): a Flash_Erase of an inverted range over a page that holds
\* a record returned HAL_ERROR and the record is still there.
C18_Witness ==
    /\ lastOp = "Flash_Erase"
    /\ lastArg.end < lastArg.start
    /\ lastArg.hw = "none"
    /\ lastRet = HAL_ERROR
    /\ halLog = <<>>
    /\ lifu_cfg_is_valid(LoadView(flash))

\* C19: snapshot(NULL) returns HAL_ERROR and leaves the cached record, the
\* loaded flag and flash as they were, with no lazy load and no HAL call;
\* snapshot with a destination returns HAL_OK, leaves the store loaded and
\* hands out every byte of the cached record.
C19_SnapshotNullNoOp ==
    [][/\ lastOp' = "snapshot_null"
            => /\ lastRet' = HAL_ERROR
               /\ flash' = flash
               /\ g_cfg' = g_cfg
               /\ g_cfg_loaded' = g_cfg_loaded
               /\ loads' = loads
               /\ halLog' = <<>>
       /\ lastOp' = "snapshot"
            => /\ lastRet' = HAL_OK
               /\ g_cfg_loaded'
               /\ Len(lastOut') = SizeofCfg
               /\ lastOut' = g_cfg']_vars

\* C19 (witness): snapshot(NULL) on a store that is not loaded and whose
\* page would not validate: still not loaded, the page still invalid.
C19_Witness ==
    /\ lastOp = "snapshot_null"
    /\ lastRet = HAL_ERROR
    /\ ~g_cfg_loaded
    /\ WouldDefault

=============================================================================
